---- MODULE Spec2Model ----
(***************************************************************************)
(* A model of vsgGIS/gdal_utils.cpp: the two dataset compatibility checks  *)
(* (compatibleDatasetProjections,                                          *)
(* compatibleDatasetProjectionsTransformAndSizes) and the typed image      *)
(* factory createImage2D with its numeric default policy.                  *)
(*                                                                         *)
(* The functions are pure.  Init draws one call's arguments from bounded   *)
(* sets; one action per function applies it and records what it returned.  *)
(***************************************************************************)
EXTENDS Integers, Sequences

VARIABLES
    pc,             \* "start", or the function that has been called and has returned
    lhs, rhs,       \* the two GDALDataset arguments of a compatibility check
    ret,            \* the bool a compatibility check returned
    locals,         \* locals of compatibleDatasetProjectionsTransformAndSizes at its return
    width, height,  \* createImage2D's arguments
    numComponents,
    dataType,
    def,
    adjacent,       \* the double that lies right behind def in memory
    image           \* the vsg::ref_ptr<vsg::Data> createImage2D returned

vars == <<pc, lhs, rhs, ret, locals, width, height, numComponents, dataType, def, adjacent, image>>

----------------------------------------------------------------------------
(* Bounds of the model *)

\* raster sizes are drawn from 1..MaxSize
MaxSize == 2
\* geotransform components are drawn from 0..MaxDouble and NaN
MaxDouble == 1
\* components of def are drawn from -MaxScale..MaxScale
MaxScale == 1
\* width and height of an image are drawn from 0..MaxDim
MaxDim == 1
\* numComponents is drawn from 0..MaxComponents
MaxComponents == 5

----------------------------------------------------------------------------
(* Doubles.  A double is an integer of 0..MaxDouble, or NaN, the one value *)
(* that compares unequal to itself.                                        *)

NaN == MaxDouble + 1

Doubles == 0..NaN

\* operator!= of double
DoubleNe(x, y) == x = NaN \/ y = NaN \/ x # y

----------------------------------------------------------------------------
(* C strings and pointers.  A const char* is an address; 0 is the null     *)
(* pointer.  A string is the sequence of its bytes before the terminating  *)
(* zero.  Addresses 1 and 2 hold equal strings at different places.        *)

NULL == 0

Memory == <<  <<1, 2>>, <<1, 2>>, <<1>>  >>

Addresses == 1..Len(Memory)

\* the byte of the string at address p at offset i (0-based), 0 at its end
ByteAt(p, i) == IF i < Len(Memory[p]) THEN Memory[p][i + 1] ELSE 0

RECURSIVE strcmpFrom(_, _, _)
strcmpFrom(p, q, i) ==
    IF ByteAt(p, i) # ByteAt(q, i) THEN ByteAt(p, i) - ByteAt(q, i)
    ELSE IF ByteAt(p, i) = 0 THEN 0
    ELSE strcmpFrom(p, q, i + 1)

strcmp(p, q) == strcmpFrom(p, q, 0)

----------------------------------------------------------------------------
(* GDALDataset, as far as the checks read it.  id is the object's          *)
(* identity (its address).                                                 *)

GeoTransformSize == 6

CE_None == 0
CE_Failure == 3

BaseTransform == [i \in 1..GeoTransformSize |-> 0]

\* transforms that differ from BaseTransform in at most one component
Transforms ==
    {BaseTransform} \cup
    {[BaseTransform EXCEPT ![i] = v] : i \in 1..GeoTransformSize, v \in Doubles}

Datasets(id) ==
    [id : {id},
     projectionRef : {NULL} \cup Addresses,
     xsize : 1..MaxSize,
     ysize : 1..MaxSize,
     hasGeoTransform : BOOLEAN,
     geoTransform : Transforms]

\* a dataset without a geotransform has nothing to tell apart in geoTransform
WellFormed(ds) == ds.hasGeoTransform \/ ds.geoTransform = BaseTransform

GetProjectionRef(ds) == ds.projectionRef

GetRasterXSize(ds) == ds.xsize

GetRasterYSize(ds) == ds.ysize

\* the CPLErr GetGeoTransform returns; the array is written on CE_None
GetGeoTransform(ds) == IF ds.hasGeoTransform THEN CE_None ELSE CE_Failure

----------------------------------------------------------------------------
(* compatibleDatasetProjections *)

\* a variant that tests for a null pointer before it compares the pointers
compatibleDatasetProjections_nullFirst(l, r) ==
    IF l.id = r.id THEN TRUE
    ELSE LET lhs_projectionRef == GetProjectionRef(l)
             rhs_projectionRef == GetProjectionRef(l)
         IN  IF lhs_projectionRef = NULL \/ rhs_projectionRef = NULL THEN FALSE
             ELSE IF lhs_projectionRef = rhs_projectionRef THEN TRUE
             ELSE strcmp(lhs_projectionRef, rhs_projectionRef) = 0

compatibleDatasetProjections(l, r) ==
    IF l.id = r.id THEN TRUE
    ELSE LET lhs_projectionRef == GetProjectionRef(l)
             rhs_projectionRef == GetProjectionRef(l)
         IN  IF lhs_projectionRef = rhs_projectionRef THEN TRUE
             ELSE IF lhs_projectionRef = NULL \/ rhs_projectionRef = NULL THEN FALSE
             ELSE strcmp(lhs_projectionRef, rhs_projectionRef) = 0

----------------------------------------------------------------------------
(* compatibleDatasetProjectionsTransformAndSizes *)

\* a variant with && in place of ||
SizesDiffer_and(l, r) ==
    GetRasterXSize(l) # GetRasterXSize(r) /\ GetRasterYSize(l) # GetRasterYSize(r)

\* the condition of the if of line 54
SizesDiffer(l, r) ==
    GetRasterXSize(l) # GetRasterXSize(r) \/ GetRasterYSize(l) # GetRasterYSize(r)

\* a variant whose loop stops one component early
RECURSIVE TransformLoop_short(_, _, _)
TransformLoop_short(lhs_GeoTransform, rhs_GeoTransform, i) ==
    IF i < GeoTransformSize - 1
    THEN IF DoubleNe(lhs_GeoTransform[i + 1], rhs_GeoTransform[i + 1]) THEN FALSE
         ELSE TransformLoop_short(lhs_GeoTransform, rhs_GeoTransform, i + 1)
    ELSE TRUE

\* the for loop of lines 72..79, entered with i
RECURSIVE TransformLoop(_, _, _)
TransformLoop(lhs_GeoTransform, rhs_GeoTransform, i) ==
    IF i < GeoTransformSize
    THEN IF DoubleNe(lhs_GeoTransform[i + 1], rhs_GeoTransform[i + 1]) THEN FALSE
         ELSE TransformLoop(lhs_GeoTransform, rhs_GeoTransform, i + 1)
    ELSE TRUE

\* what the function has at its return: the bool it returns, and whether line 49
\* called compatibleDatasetProjections and what that call returned
Returned(value, projections) == [value |-> value, projections |-> projections]

\* the function from line 51 on
TransformAndSizesBody(l, r, projections) ==
    IF SizesDiffer(l, r) THEN Returned(FALSE, projections)
    ELSE LET numberWithValidTransforms ==
                 (IF GetGeoTransform(l) = CE_None THEN 1 ELSE 0)
               + (IF GetGeoTransform(r) = CE_None THEN 1 ELSE 0)
         IN  IF numberWithValidTransforms = 0 THEN Returned(TRUE, projections)
             ELSE IF numberWithValidTransforms = 1 THEN Returned(FALSE, projections)
             ELSE Returned(TransformLoop(l.geoTransform, r.geoTransform, 0), projections)

\* a variant without the test of line 49
TransformAndSizesRun_noProjections(l, r) == TransformAndSizesBody(l, r, "not called")

TransformAndSizesRun(l, r) ==
    IF ~compatibleDatasetProjections(l, r)
    THEN Returned(FALSE, "returned false")
    ELSE TransformAndSizesBody(l, r, "returned true")

compatibleDatasetProjectionsTransformAndSizes(l, r) == TransformAndSizesRun(l, r).value

----------------------------------------------------------------------------
(* The calls *)

NoLocals == Returned(FALSE, "not called")

\* two references name the same object or two objects
DatasetPairs ==
    {p \in Datasets(1) \X (Datasets(1) \cup Datasets(2)) :
        /\ WellFormed(p[1]) /\ WellFormed(p[2])
        /\ p[2].id = p[1].id => p[2] = p[1]}

InitCompat ==
    /\ pc = "start"
    /\ \E p \in DatasetPairs : lhs = p[1] /\ rhs = p[2]
    /\ ret = FALSE
    /\ locals = NoLocals
    /\ width = 0 /\ height = 0 /\ numComponents = 0 /\ dataType = "GDT_Unknown"
    /\ def = <<0, 0, 0, 0>> /\ adjacent = 0
    /\ image = <<>>

CallProjections ==
    /\ pc = "start"
    /\ pc' = "compatibleDatasetProjections"
    /\ ret' = compatibleDatasetProjections(lhs, rhs)
    /\ UNCHANGED <<lhs, rhs, locals, width, height, numComponents, dataType, def, adjacent, image>>

CallTransformAndSizes ==
    /\ pc = "start"
    /\ pc' = "compatibleDatasetProjectionsTransformAndSizes"
    /\ locals' = TransformAndSizesRun(lhs, rhs)
    /\ ret' = locals'.value
    /\ UNCHANGED <<lhs, rhs, width, height, numComponents, dataType, def, adjacent, image>>

NextCompat == CallProjections \/ CallTransformAndSizes

SpecCompat == InitCompat /\ [][NextCompat]_vars

----------------------------------------------------------------------------
(* Integer values.  A value n of an integer type is the pair of hi and lo  *)
(* with n = hi * 2^16 + lo and 0 <= lo < 2^16, so that the limits of the   *)
(* 32-bit types are within the range the model checker computes in.        *)

RECURSIVE Pow2(_)
Pow2(n) == IF n = 0 THEN 1 ELSE 2 * Pow2(n - 1)

IntValue(hi, lo) == [hi |-> hi, lo |-> lo]

\* the scalar types the create functions are instantiated with
ScalarTypes ==
    [uint8_t  |-> [is_integer |-> TRUE,  is_signed |-> FALSE, bits |-> 8],
     uint16_t |-> [is_integer |-> TRUE,  is_signed |-> FALSE, bits |-> 16],
     int16_t  |-> [is_integer |-> TRUE,  is_signed |-> TRUE,  bits |-> 16],
     uint32_t |-> [is_integer |-> TRUE,  is_signed |-> FALSE, bits |-> 32],
     int32_t  |-> [is_integer |-> TRUE,  is_signed |-> TRUE,  bits |-> 32],
     float    |-> [is_integer |-> FALSE, is_signed |-> TRUE,  bits |-> 32],
     double   |-> [is_integer |-> FALSE, is_signed |-> TRUE,  bits |-> 64]]

\* std::numeric_limits<T>::max() of an integer type: all value bits set
numeric_limits_max(T) ==
    LET m == ScalarTypes[T].bits - (IF ScalarTypes[T].is_signed THEN 1 ELSE 0)
    IN  IF m <= 16 THEN IntValue(0, Pow2(m) - 1) ELSE IntValue(Pow2(m - 16) - 1, Pow2(16) - 1)

\* std::numeric_limits<T>::min() of an integer type: 0, or -2^(bits-1)
numeric_limits_min(T) ==
    LET m == ScalarTypes[T].bits - 1
    IN  IF ~ScalarTypes[T].is_signed THEN IntValue(0, 0)
        ELSE IF m < 16 THEN IntValue(-1, Pow2(16) - Pow2(m))
        ELSE IntValue(-Pow2(m - 16), 0)

\* static_cast<T>(scale) to float or double: the scales of the model are small
\* integers, which both types hold exactly
static_cast_floating(T, scale) == scale

----------------------------------------------------------------------------
(* The numeric default policy *)

default_value(T, scale) ==
    IF ScalarTypes[T].is_integer
    THEN IF scale < 0 THEN numeric_limits_min(T)
         ELSE IF scale > 0 THEN numeric_limits_max(T)
         ELSE IntValue(0, 0)
    ELSE static_cast_floating(T, scale)

DVec4Size == 4

\* value[i] of a vsg::dvec4: index 4 is behind its last component, and reads
\* whatever lies there
At(value, behind, i) == IF i < DVec4Size THEN value[i + 1] ELSE behind

default_vec2(T, value, behind) ==
    <<default_value(T, At(value, behind, 0)), default_value(T, At(value, behind, 1))>>

\* a variant that reads component 1 for the third channel
default_vec3_repeat(T, value, behind) ==
    <<default_value(T, At(value, behind, 0)), default_value(T, At(value, behind, 1)),
      default_value(T, At(value, behind, 1))>>

default_vec3(T, value, behind) ==
    <<default_value(T, At(value, behind, 0)), default_value(T, At(value, behind, 1)),
      default_value(T, At(value, behind, 2))>>

default_vec4(T, value, behind) ==
    <<default_value(T, At(value, behind, 0)), default_value(T, At(value, behind, 1)),
      default_value(T, At(value, behind, 2)), default_value(T, At(value, behind, 4))>>

----------------------------------------------------------------------------
(* createImage2D *)

\* the entries of createMap, in the order the function adds them: the key's
\* GDALDataType and component count, then the array type created, the function
\* that makes its fill value, the type that function is instantiated with, and
\* the VkFormat of the layout
CreateMapEntries ==
    {
     <<"GDT_Byte", 1, "ubyteArray2D", "default_value", "uint8_t", "VK_FORMAT_R8_UNORM">>,
     <<"GDT_UInt16", 1, "ushortArray2D", "default_value", "uint16_t", "VK_FORMAT_R16_UNORM">>,
     <<"GDT_Int16", 1, "shortArray2D", "default_value", "int16_t", "VK_FORMAT_R16_SNORM">>,
     <<"GDT_UInt32", 1, "uintArray2D", "default_value", "uint32_t", "VK_FORMAT_R32_UINT">>,
     <<"GDT_Int32", 1, "intArray2D", "default_value", "int32_t", "VK_FORMAT_R32_SINT">>,
     <<"GDT_Float32", 1, "floatArray2D", "default_value", "float", "VK_FORMAT_R32_SFLOAT">>,
     <<"GDT_Float64", 1, "doubleArray2D", "default_value", "double", "VK_FORMAT_R64_SFLOAT">>,

     <<"GDT_Byte", 2, "ubvec2Array2D", "default_vec2", "uint8_t", "VK_FORMAT_R8G8_UNORM">>,
     <<"GDT_UInt16", 2, "usvec2Array2D", "default_vec2", "uint16_t", "VK_FORMAT_R16G16_UNORM">>,
     <<"GDT_Int16", 2, "svec2Array2D", "default_vec2", "int16_t", "VK_FORMAT_R16G16_SNORM">>,
     <<"GDT_UInt32", 2, "uivec2Array2D", "default_vec2", "uint32_t", "VK_FORMAT_R32G32_UINT">>,
     <<"GDT_Int32", 2, "ivec2Array2D", "default_vec2", "int32_t", "VK_FORMAT_R32G32_SINT">>,
     <<"GDT_Float32", 2, "vec2Array2D", "default_vec2", "float", "VK_FORMAT_R32G32_SFLOAT">>,
     <<"GDT_Float64", 2, "dvec2Array2D", "default_vec2", "double", "VK_FORMAT_R64G64_SFLOAT">>,

     <<"GDT_Byte", 3, "ubvec3Array2D", "default_vec3", "uint8_t", "VK_FORMAT_R8G8B8_UNORM">>,
     <<"GDT_UInt16", 3, "usvec3Array2D", "default_vec3", "uint16_t", "VK_FORMAT_R16G16B16_UNORM">>,
     <<"GDT_Int16", 3, "svec3Array2D", "default_vec3", "int16_t", "VK_FORMAT_R16G16B16_SNORM">>,
     <<"GDT_UInt32", 3, "uivec3Array2D", "default_vec3", "uint32_t", "VK_FORMAT_R32G32B32_UINT">>,
     <<"GDT_Int32", 3, "ivec3Array2D", "default_vec3", "int32_t", "VK_FORMAT_R32G32B32_SINT">>,
     <<"GDT_Float32", 3, "vec3Array2D", "default_vec3", "float", "VK_FORMAT_R32G32B32_SFLOAT">>,
     <<"GDT_Float64", 3, "dvec3Array2D", "default_vec3", "double", "VK_FORMAT_R64G64B64_SFLOAT">>,

     <<"GDT_Byte", 4, "ubvec4Array2D", "default_vec4", "uint8_t", "VK_FORMAT_R8G8B8A8_UNORM">>,
     <<"GDT_UInt16", 4, "usvec4Array2D", "default_vec4", "uint16_t", "VK_FORMAT_R16G16B16A16_UNORM">>,
     <<"GDT_Int16", 4, "svec4Array2D", "default_vec4", "int16_t", "VK_FORMAT_R16G16B16A16_SNORM">>,
     <<"GDT_UInt32", 4, "uivec4Array2D", "default_vec4", "uint32_t", "VK_FORMAT_R32G32B32A32_UINT">>,
     <<"GDT_Int32", 4, "ivec4Array2D", "default_vec4", "int32_t", "VK_FORMAT_R32G32B32A32_SINT">>,
     <<"GDT_Float32", 4, "vec4Array2D", "default_vec4", "float", "VK_FORMAT_R32G32B32A32_SFLOAT">>,
     <<"GDT_Float64", 4, "dvec4Array2D", "default_vec4", "double", "VK_FORMAT_R64G64B64A64_SFLOAT">>
    }

\* a variant whose last entry was never added
createMap_incomplete ==
    [k \in {<<e[1], e[2]>> : e \in CreateMapEntries} \ {<<"GDT_Float64", 4>>} |->
        CHOOSE e \in CreateMapEntries : <<e[1], e[2]>> = k]

\* a variant with the format of (GDT_Int16, 2) copied from the line above it
createMap_copied ==
    [k \in {<<e[1], e[2]>> : e \in CreateMapEntries} |->
        IF k = <<"GDT_Int16", 2>>
        THEN <<"GDT_Int16", 2, "svec2Array2D", "default_vec2", "int16_t", "VK_FORMAT_R16G16_UNORM">>
        ELSE CHOOSE e \in CreateMapEntries : <<e[1], e[2]>> = k]

\* the std::map after line 152
createMap ==
    [k \in {<<e[1], e[2]>> : e \in CreateMapEntries} |->
        CHOOSE e \in CreateMapEntries : <<e[1], e[2]>> = k]

\* the fill value an entry's lambda passes to create; a scalar is a vector of
\* one component
FillValue(entry, d, behind) ==
    IF entry[4] = "default_value" THEN <<default_value(entry[5], At(d, behind, 0))>>
    ELSE IF entry[4] = "default_vec2" THEN default_vec2(entry[5], d, behind)
    ELSE IF entry[4] = "default_vec3" THEN default_vec3(entry[5], d, behind)
    ELSE default_vec4(entry[5], d, behind)

\* vsg::Array2D<T>::create(w, h, value, layout): w * h elements, each value
Array2D_create(type, w, h, value, format) ==
    [type |-> type, width |-> w, height |-> h,
     data |-> [k \in 1..(w * h) |-> value],
     layout |-> [format |-> format]]

\* the ref_ptr returned is the empty sequence when it is null
createImage2D(w, h, n, type, d, behind) ==
    IF <<type, n>> \notin DOMAIN createMap THEN <<>>
    ELSE LET entry == createMap[<<type, n>>]
         IN  <<Array2D_create(entry[3], w, h, FillValue(entry, d, behind), entry[6])>>

----------------------------------------------------------------------------
(* The call of createImage2D *)

\* GDALDataType: the seven the function knows and three it does not
DataTypes ==
    {"GDT_Byte", "GDT_UInt16", "GDT_Int16", "GDT_UInt32", "GDT_Int32", "GDT_Float32",
     "GDT_Float64", "GDT_Unknown", "GDT_CInt16", "GDT_CFloat64"}

Scales == (-MaxScale)..MaxScale

NoDataset ==
    [id |-> 1, projectionRef |-> NULL, xsize |-> 1, ysize |-> 1,
     hasGeoTransform |-> FALSE, geoTransform |-> BaseTransform]

InitImage ==
    /\ pc = "start"
    /\ lhs = NoDataset /\ rhs = NoDataset
    /\ ret = FALSE
    /\ locals = NoLocals
    /\ width \in 0..MaxDim
    /\ height \in 0..MaxDim
    /\ numComponents \in 0..MaxComponents
    /\ dataType \in DataTypes
    /\ def \in [1..DVec4Size -> Scales]
    \* only the create functions of 4 components read behind def
    /\ adjacent \in (IF numComponents = 4 THEN Scales ELSE {0})
    /\ image = <<>>

CallCreateImage2D ==
    /\ pc = "start"
    /\ pc' = "createImage2D"
    /\ image' = createImage2D(width, height, numComponents, dataType, def, adjacent)
    /\ UNCHANGED <<lhs, rhs, ret, locals, width, height, numComponents, dataType, def, adjacent>>

NextImage == CallCreateImage2D

SpecImage == InitImage /\ [][NextImage]_vars

----------------------------------------------------------------------------
(* Properties of the compatibility checks, under SpecCompat *)

ProjectionsReturned == pc = "compatibleDatasetProjections"

TransformAndSizesReturned == pc = "compatibleDatasetProjectionsTransformAndSizes"

Distinct == lhs.id # rhs.id

ExactlyOneAbsent == (GetProjectionRef(lhs) = NULL) # (GetProjectionRef(rhs) = NULL)

BothPresent == GetProjectionRef(lhs) # NULL /\ GetProjectionRef(rhs) # NULL

\* the two projection strings are equal byte for byte
EqualStrings == Memory[GetProjectionRef(lhs)] = Memory[GetProjectionRef(rhs)]

SameSizes == lhs.xsize = rhs.xsize /\ lhs.ysize = rhs.ysize

\* how many of the two datasets have a geotransform that can be read
Readable == (IF lhs.hasGeoTransform THEN 1 ELSE 0) + (IF rhs.hasGeoTransform THEN 1 ELSE 0)

\* all six components are equal as operator== of double has it
EqualTransforms ==
    \A i \in 1..GeoTransformSize : ~DoubleNe(lhs.geoTransform[i], rhs.geoTransform[i])

\* C1: compatibleDatasetProjections returns false for two distinct datasets of
\* which exactly one has a null projection reference, whichever side it is.
C1_OneAbsentIsIncompatible ==
    (ProjectionsReturned /\ Distinct /\ ExactlyOneAbsent) => ret = FALSE

\* C2: for two distinct datasets that both have a projection reference,
\* compatibleDatasetProjections returns true if and only if the two strings
\* are equal byte for byte.
C2_PresentCompatibleIffEqualStrings ==
    (ProjectionsReturned /\ Distinct /\ BothPresent) => (ret = TRUE <=> EqualStrings)

\* C3: compatibleDatasetProjections is symmetric: what it returned for (lhs, rhs)
\* is what it returns for (rhs, lhs), for every combination of absent, equal and
\* different projection references.
C3_Symmetric ==
    ProjectionsReturned => ret = compatibleDatasetProjections(rhs, lhs)

C3_Witness ==
    /\ ProjectionsReturned /\ Distinct /\ ExactlyOneAbsent
    /\ ret = compatibleDatasetProjections(rhs, lhs)

\* C4: for two datasets with compatible projections and equal widths and
\* heights, compatibleDatasetProjectionsTransformAndSizes returns true when
\* neither geotransform can be read, false when exactly one can, and, when both
\* can, true if and only if all six components are pairwise equal (equal as ==
\* of double has it, without tolerance).
C4_TransformArity ==
    (TransformAndSizesReturned /\ compatibleDatasetProjections(lhs, rhs) /\ SameSizes) =>
        /\ Readable = 0 => ret = TRUE
        /\ Readable = 1 => ret = FALSE
        /\ Readable = 2 => (ret = TRUE <=> EqualTransforms)

\* two readable transforms that differ in the last component alone
C4_Witness ==
    /\ TransformAndSizesReturned /\ Distinct /\ SameSizes
    /\ compatibleDatasetProjections(lhs, rhs)
    /\ Readable = 2
    /\ \A i \in 1..(GeoTransformSize - 1) : lhs.geoTransform[i] = rhs.geoTransform[i]
    /\ lhs.geoTransform[GeoTransformSize] = 0
    /\ rhs.geoTransform[GeoTransformSize] = 1
    /\ ret = FALSE

\* C5: whenever compatibleDatasetProjectionsTransformAndSizes returns true,
\* compatibleDatasetProjections returns true for the same two datasets, and the
\* function has called it (line 49) and seen it return true.
C5_StrictnessOrdering ==
    (TransformAndSizesReturned /\ ret = TRUE) =>
        /\ compatibleDatasetProjections(lhs, rhs)
        /\ locals.projections = "returned true"

C5_Witness ==
    /\ TransformAndSizesReturned /\ Distinct /\ ret = TRUE
    /\ Readable = 2
    /\ locals.projections = "returned true"

\* C6: whenever compatibleDatasetProjectionsTransformAndSizes returns true, the
\* two datasets have equal raster widths and equal raster heights: a difference
\* in either dimension alone makes it return false.
C6_TrueOnlyForEqualSizes ==
    (TransformAndSizesReturned /\ ret = TRUE) => SameSizes

\* the widths differ and nothing else does
C6_Witness ==
    /\ TransformAndSizesReturned /\ Distinct
    /\ lhs.xsize # rhs.xsize /\ lhs.ysize = rhs.ysize
    /\ GetProjectionRef(lhs) = GetProjectionRef(rhs)
    /\ Readable = 2 /\ EqualTransforms
    /\ ret = FALSE

----------------------------------------------------------------------------
(* What the names createImage2D uses stand for, from the libraries that    *)
(* define them: the element type of each vsg array type, the layout each   *)
(* VkFormat names, and the scalar each GDALDataType encodes.               *)

Array2DElement ==
    [ubyteArray2D |-> [scalar |-> "uint8_t", components |-> 1],
     ushortArray2D |-> [scalar |-> "uint16_t", components |-> 1],
     shortArray2D |-> [scalar |-> "int16_t", components |-> 1],
     uintArray2D |-> [scalar |-> "uint32_t", components |-> 1],
     intArray2D |-> [scalar |-> "int32_t", components |-> 1],
     floatArray2D |-> [scalar |-> "float", components |-> 1],
     doubleArray2D |-> [scalar |-> "double", components |-> 1],
     ubvec2Array2D |-> [scalar |-> "uint8_t", components |-> 2],
     usvec2Array2D |-> [scalar |-> "uint16_t", components |-> 2],
     svec2Array2D |-> [scalar |-> "int16_t", components |-> 2],
     uivec2Array2D |-> [scalar |-> "uint32_t", components |-> 2],
     ivec2Array2D |-> [scalar |-> "int32_t", components |-> 2],
     vec2Array2D |-> [scalar |-> "float", components |-> 2],
     dvec2Array2D |-> [scalar |-> "double", components |-> 2],
     ubvec3Array2D |-> [scalar |-> "uint8_t", components |-> 3],
     usvec3Array2D |-> [scalar |-> "uint16_t", components |-> 3],
     svec3Array2D |-> [scalar |-> "int16_t", components |-> 3],
     uivec3Array2D |-> [scalar |-> "uint32_t", components |-> 3],
     ivec3Array2D |-> [scalar |-> "int32_t", components |-> 3],
     vec3Array2D |-> [scalar |-> "float", components |-> 3],
     dvec3Array2D |-> [scalar |-> "double", components |-> 3],
     ubvec4Array2D |-> [scalar |-> "uint8_t", components |-> 4],
     usvec4Array2D |-> [scalar |-> "uint16_t", components |-> 4],
     svec4Array2D |-> [scalar |-> "int16_t", components |-> 4],
     uivec4Array2D |-> [scalar |-> "uint32_t", components |-> 4],
     ivec4Array2D |-> [scalar |-> "int32_t", components |-> 4],
     vec4Array2D |-> [scalar |-> "float", components |-> 4],
     dvec4Array2D |-> [scalar |-> "double", components |-> 4]]

VkFormatLayout ==
    [VK_FORMAT_R8_UNORM |-> [channels |-> 1, bits |-> 8, class |-> "UNORM"],
     VK_FORMAT_R16_UNORM |-> [channels |-> 1, bits |-> 16, class |-> "UNORM"],
     VK_FORMAT_R16_SNORM |-> [channels |-> 1, bits |-> 16, class |-> "SNORM"],
     VK_FORMAT_R32_UINT |-> [channels |-> 1, bits |-> 32, class |-> "UINT"],
     VK_FORMAT_R32_SINT |-> [channels |-> 1, bits |-> 32, class |-> "SINT"],
     VK_FORMAT_R32_SFLOAT |-> [channels |-> 1, bits |-> 32, class |-> "SFLOAT"],
     VK_FORMAT_R64_SFLOAT |-> [channels |-> 1, bits |-> 64, class |-> "SFLOAT"],
     VK_FORMAT_R8G8_UNORM |-> [channels |-> 2, bits |-> 8, class |-> "UNORM"],
     VK_FORMAT_R16G16_UNORM |-> [channels |-> 2, bits |-> 16, class |-> "UNORM"],
     VK_FORMAT_R16G16_SNORM |-> [channels |-> 2, bits |-> 16, class |-> "SNORM"],
     VK_FORMAT_R32G32_UINT |-> [channels |-> 2, bits |-> 32, class |-> "UINT"],
     VK_FORMAT_R32G32_SINT |-> [channels |-> 2, bits |-> 32, class |-> "SINT"],
     VK_FORMAT_R32G32_SFLOAT |-> [channels |-> 2, bits |-> 32, class |-> "SFLOAT"],
     VK_FORMAT_R64G64_SFLOAT |-> [channels |-> 2, bits |-> 64, class |-> "SFLOAT"],
     VK_FORMAT_R8G8B8_UNORM |-> [channels |-> 3, bits |-> 8, class |-> "UNORM"],
     VK_FORMAT_R16G16B16_UNORM |-> [channels |-> 3, bits |-> 16, class |-> "UNORM"],
     VK_FORMAT_R16G16B16_SNORM |-> [channels |-> 3, bits |-> 16, class |-> "SNORM"],
     VK_FORMAT_R32G32B32_UINT |-> [channels |-> 3, bits |-> 32, class |-> "UINT"],
     VK_FORMAT_R32G32B32_SINT |-> [channels |-> 3, bits |-> 32, class |-> "SINT"],
     VK_FORMAT_R32G32B32_SFLOAT |-> [channels |-> 3, bits |-> 32, class |-> "SFLOAT"],
     VK_FORMAT_R64G64B64_SFLOAT |-> [channels |-> 3, bits |-> 64, class |-> "SFLOAT"],
     VK_FORMAT_R8G8B8A8_UNORM |-> [channels |-> 4, bits |-> 8, class |-> "UNORM"],
     VK_FORMAT_R16G16B16A16_UNORM |-> [channels |-> 4, bits |-> 16, class |-> "UNORM"],
     VK_FORMAT_R16G16B16A16_SNORM |-> [channels |-> 4, bits |-> 16, class |-> "SNORM"],
     VK_FORMAT_R32G32B32A32_UINT |-> [channels |-> 4, bits |-> 32, class |-> "UINT"],
     VK_FORMAT_R32G32B32A32_SINT |-> [channels |-> 4, bits |-> 32, class |-> "SINT"],
     VK_FORMAT_R32G32B32A32_SFLOAT |-> [channels |-> 4, bits |-> 32, class |-> "SFLOAT"],
     VK_FORMAT_R64G64B64A64_SFLOAT |-> [channels |-> 4, bits |-> 64, class |-> "SFLOAT"]]

Encoding ==
    [GDT_Byte    |-> [scalar |-> "uint8_t",  bits |-> 8,  class |-> "UNORM"],
     GDT_UInt16  |-> [scalar |-> "uint16_t", bits |-> 16, class |-> "UNORM"],
     GDT_Int16   |-> [scalar |-> "int16_t",  bits |-> 16, class |-> "SNORM"],
     GDT_UInt32  |-> [scalar |-> "uint32_t", bits |-> 32, class |-> "UINT"],
     GDT_Int32   |-> [scalar |-> "int32_t",  bits |-> 32, class |-> "SINT"],
     GDT_Float32 |-> [scalar |-> "float",    bits |-> 32, class |-> "SFLOAT"],
     GDT_Float64 |-> [scalar |-> "double",   bits |-> 64, class |-> "SFLOAT"]]

\* n as an integer value, for n of -2^31 .. 2^31 - 1
Wide(n) == IntValue(n \div 65536, n % 65536)

TypeMinimum ==
    [GDT_Byte   |-> Wide(0),
     GDT_UInt16 |-> Wide(0),
     GDT_Int16  |-> Wide(-32768),
     GDT_UInt32 |-> Wide(0),
     GDT_Int32  |-> IntValue(-32768, 0)]

TypeMaximum ==
    [GDT_Byte   |-> Wide(255),
     GDT_UInt16 |-> Wide(65535),
     GDT_Int16  |-> Wide(32767),
     GDT_UInt32 |-> IntValue(65535, 65535),
     GDT_Int32  |-> Wide(2147483647)]

----------------------------------------------------------------------------
(* Properties of createImage2D, under SpecImage *)

ImageReturned == pc = "createImage2D"

SupportedTypes == DOMAIN Encoding

IntegerTypes == DOMAIN TypeMinimum

Supported == dataType \in SupportedTypes /\ numComponents \in 1..4

\* the fill a scale selects: the minimum, zero or the maximum, by its sign
Selected(type, scale) ==
    IF scale < 0 THEN TypeMinimum[type]
    ELSE IF scale > 0 THEN TypeMaximum[type]
    ELSE Wide(0)

\* every channel of every element of the image is v
AllChannels(v) ==
    \A k \in DOMAIN image[1].data : \A c \in 1..numComponents : image[1].data[k][c] = v

\* C7: createImage2D returns a non-empty buffer if and only if dataType is one
\* of the 7 encodings and numComponents is 1, 2, 3 or 4; otherwise it returns
\* an empty result; a buffer it returns is whole, with width * height elements
\* of numComponents channels.
C7_NonEmptyIffSupported ==
    ImageReturned =>
        /\ image # <<>> <=> Supported
        /\ image # <<>> =>
            /\ Len(image) = 1
            /\ DOMAIN image[1].data = 1..(width * height)
            /\ \A k \in DOMAIN image[1].data : Len(image[1].data[k]) = numComponents

C7_Witness ==
    /\ ImageReturned
    /\ dataType = "GDT_Float64" /\ numComponents = 4
    /\ image # <<>>

\* C8: for each of the 28 supported pairs the buffer's element type has the
\* named encoding as its scalar type and numComponents components, and its
\* format tag has numComponents channels, the encoding's bit width per channel
\* and the encoding's numeric class (UNORM and SNORM for 8- and 16-bit integers,
\* UINT and SINT for 32-bit integers, SFLOAT for the floats).
C8_TypeAndFormatMatch ==
    (ImageReturned /\ Supported) =>
        /\ image # <<>>
        /\ Array2DElement[image[1].type].scalar = Encoding[dataType].scalar
        /\ Array2DElement[image[1].type].components = numComponents
        /\ VkFormatLayout[image[1].layout.format].channels = numComponents
        /\ VkFormatLayout[image[1].layout.format].bits = Encoding[dataType].bits
        /\ VkFormatLayout[image[1].layout.format].class = Encoding[dataType].class

C8_Witness ==
    /\ ImageReturned
    /\ dataType = "GDT_Int16" /\ numComponents = 2
    /\ image # <<>>
    /\ image[1].type = "svec2Array2D"
    /\ image[1].layout.format = "VK_FORMAT_R16G16_SNORM"

\* C9: for every integer encoding and every channel count 1 to 4, createImage2D
\* with defaultValue (-1,-1,-1,-1) fills every channel of every element with
\* the type's minimum, with (1,1,1,1) with its maximum, and with (0,0,0,0) with
\* zero.
C9_Saturation ==
    (ImageReturned /\ dataType \in IntegerTypes /\ numComponents \in 1..4) =>
        /\ image # <<>>
        /\ def = <<-1, -1, -1, -1>> => AllChannels(TypeMinimum[dataType])
        /\ def = <<1, 1, 1, 1>> => AllChannels(TypeMaximum[dataType])
        /\ def = <<0, 0, 0, 0>> => AllChannels(Wide(0))

\* C10: for numComponents 1, 2 and 3 and every integer encoding, channel i of
\* the fill is selected by the sign of defaultValue[i] alone (negative the
\* minimum, positive the maximum, zero zero), and a change of any other
\* component of defaultValue, or of what lies behind it, leaves channel i as it
\* is.
C10_PerChannel ==
    (ImageReturned /\ dataType \in IntegerTypes /\ numComponents \in 1..3) =>
        /\ image # <<>>
        /\ \A k \in DOMAIN image[1].data : \A c \in 1..numComponents :
                image[1].data[k][c] = Selected(dataType, def[c])
        /\ \A j \in 1..DVec4Size : \A v \in Scales :
            LET other == createImage2D(width, height, numComponents, dataType,
                                       [def EXCEPT ![j] = v], adjacent)
            IN  \A k \in DOMAIN image[1].data : \A c \in (1..numComponents) \ {j} :
                    other[1].data[k][c] = image[1].data[k][c]
        /\ \A b \in Scales :
                createImage2D(width, height, numComponents, dataType, def, b) = image

\* three channels filled with the minimum, zero and the maximum
C10_Witness ==
    /\ ImageReturned
    /\ dataType = "GDT_UInt32" /\ numComponents = 3
    /\ def[1] < 0 /\ def[2] = 0 /\ def[3] > 0
    /\ width = 1 /\ height = 1
    /\ image # <<>>
    /\ image[1].data[1] = <<Wide(0), Wide(0), IntValue(65535, 65535)>>

====
